---- MODULE Spec2Model ----
(***************************************************************************)
(* Message-relay pipeline of the chatbot: the gateway (token issuance,     *)
(* history read, WebSocket authentication and relay loop), the worker loop *)
(* and the store (JSON session documents and streams in one keyspace with  *)
(* per-key expiry) they share.                                             *)
(*                                                                         *)
(* An HTTP handler runs to its response without a relay or worker step in  *)
(* between: its steps touch the key of the token at hand only, so they     *)
(* commute with the steps of the other tasks.                              *)
(***************************************************************************)
EXTENDS Integers, Sequences, FiniteSets, TLC

VARIABLES
    store,              \* the store's keyspace: key -> value (none, json, stream)
    expiry,             \* key -> remaining seconds to live, NoTTL when none is set
    nextId,             \* the next stream entry id the store assigns
    deleted,            \* history: the <<stream, entry id>> pairs a delete removed
    issued,             \* the tokens uuid4 has produced so far
    known,              \* the tokens token issuance has returned to a client
    tok,                \* the token-issuance request in flight
    http,               \* the HTTP response on its way to the caller
    conn,               \* the relay task of each WebSocket connection
    active_connections, \* the connection registry
    sent,               \* per connection: the frames sent, each with the id of
                        \* the request entry published for it (0: none)
    delivered,          \* per connection: the frames the client received,
                        \* each with the id of the response entry it carried
    frames,             \* number of text frames clients have sent
    w,                  \* the worker loop
    gptCalls,           \* per request entry id: what each language-model call
                        \* made for it returned
    replies,            \* per request entry id: response entries published for it
    appends,            \* per request entry id: history appends made for it
    faults,             \* number of transport / provider failures so far
    got                 \* what the last direct call of a Cache method returned

vars == <<store, expiry, nextId, deleted, issued, known, tok, http, conn,
          active_connections, sent, delivered, frames, w, gptCalls, replies,
          appends, faults, got>>

----------------------------------------------------------------------------
(* Bounds of the model *)

MaxFrames == 2          \* text frames sent over all connections
MaxFaults == 1          \* transport / provider failures over a run
MaxStored == 4          \* messages of a session under direct Cache calls
MaxAppend == 2          \* messages in one direct add_messages_to_cache call
MaxLimit == 3           \* the limits of a direct get_chat_history call, + and -
TickSeconds == 1800     \* seconds that elapse in one step of the clock
MaxTurns == 6           \* exchanges a session went through before the run

(* Program constants *)

SessionTTL == 3600              \* redis_client.expire(str(token), 3600)
StreamTTL == 3600               \* producer.expire(response channel, 3600)
HistoryLimit == 10              \* cache.get_chat_history(token=token, limit=10)
WS_1008_POLICY_VIOLATION == 1008
NoTTL == -1                     \* ttl() of a key that has no expiry

----------------------------------------------------------------------------
(* Value domains *)

Tokens == {"t1", "t2"}                  \* the values uuid4 can produce
NoToken == "<None>"                     \* the query parameter is absent
message_channel == "message_channel"

\* one response stream for all sessions
SharedResponseChannel(token) == "response_channel_" \o "all"
response_channel(token) == "response_channel_" \o token

\* what a client may put in ?token=, besides nothing and the empty string: a
\* token, a string that is no key, and the name of the shared request stream
ClientTokens == Tokens \cup {"bogus", message_channel}
Keys == ClientTokens \cup {response_channel(t) : t \in ClientTokens}

Names == {"", "Alice"}
Texts == <<"hi", "yo", "ok">>           \* the n-th frame sent carries Texts[n]
Replies == {"r1", "r2"}
Conns == {"c1", "c2"}

NoDoc == [token |-> "", messages |-> <<>>, name |-> ""]
NoValue == [type |-> "none", doc |-> NoDoc, entries |-> <<>>]

\* the session document built without the caller's name
ChatWithoutName(token, name) == [token |-> token, messages |-> <<>>, name |-> ""]

\* Chat(token=token, messages=[], name=name).model_dump(), without the
\* session_start timestamp
Chat(token, name) == [token |-> token, messages |-> <<>>, name |-> name]

\* Message(msg=msg, source=source).model_dump(), without the generated id
\* and timestamp
Message(msg, source) == [msg |-> msg, source |-> source]

----------------------------------------------------------------------------
(* The store: one keyspace holding JSON documents and streams, each key with
   an optional time to live. *)

JsonValue(doc) == [type |-> "json", doc |-> doc, entries |-> <<>>]
StreamValue(entries) == [type |-> "stream", doc |-> NoDoc, entries |-> entries]

\* exists(key): 1 for a key of any type
Exists(key) == store[key].type # "none"

\* json().get(key, Path.root_path()): None for a missing key, an error for a
\* key that holds something else than a JSON document
JsonGetRaises(key) == store[key].type = "stream"
JsonGetIsNone(key) == store[key].type = "none"
JsonGet(key) == store[key].doc

\* json().set(key, Path.root_path(), doc)
JsonSet(key, doc) == [store EXCEPT ![key] = JsonValue(doc)]

\* an append that puts the new messages in front
ArrInsertFirst(key, messages) ==
    [store EXCEPT ![key].doc.messages = messages \o @]

\* json().arrappend(key, Path('.messages'), *messages): an error unless the
\* key holds a JSON document
ArrAppendRaises(key) == store[key].type # "json"
ArrAppend(key, messages) ==
    [store EXCEPT ![key].doc.messages = @ \o messages]

\* expire(key, seconds): sets the time to live of an existing key only
Expire(key, seconds) ==
    IF Exists(key) THEN [expiry EXCEPT ![key] = seconds] ELSE expiry

\* xadd(name, fields, id="*"): appends one entry under a new, larger id and
\* creates the stream when the key is missing.  `req` is history: the id of
\* the request entry a response entry answers (0 in a request entry).
XAddId == nextId

\* an append that puts the new entry in front of the stream
XAddFirst(name, k, v, req) ==
    [store EXCEPT ![name] = StreamValue(
        <<[id |-> XAddId, k |-> k, v |-> v, req |-> req]>> \o @.entries)]

XAdd(name, k, v, req) ==
    [store EXCEPT ![name] = StreamValue(
        @.entries \o <<[id |-> XAddId, k |-> k, v |-> v, req |-> req]>>)]

\* xread(streams={name: '0-0'}, count=count, block=0): the first `count`
\* entries of the stream, blocking while there is none
Prefix(s, n) == SubSeq(s, 1, IF n < Len(s) THEN n ELSE Len(s))
\* the last k elements of s (all of s when it has fewer)
Trailing(s, k) == SubSeq(s, Len(s) - (IF k < Len(s) THEN k ELSE Len(s)) + 1, Len(s))

\* a read that returns the newest entries
XReadNewest(name, count) == Trailing(store[name].entries, count)
\* a read that starts after the oldest entry instead of at 0-0
XReadAfterOldest(name, count) ==
    IF Len(store[name].entries) > 1
    THEN Prefix(Tail(store[name].entries), count)
    ELSE Prefix(store[name].entries, count)

\* xread(streams={name: '0-0'}, count=count): the oldest entries
XRead(name, count) == Prefix(store[name].entries, count)
XReadReady(name) == store[name].type = "stream" /\ store[name].entries # <<>>

\* a delete whose filter keeps the entry it should drop
XDelKeepsEntry(entries, id) == SelectSeq(entries, LAMBDA e : e.id = id)

\* a delete that drops the oldest entry when the id is not in the stream
XDelOrOldest(entries, id) ==
    IF \E i \in DOMAIN entries : entries[i].id = id
    THEN SelectSeq(entries, LAMBDA e : e.id # id)
    ELSE IF entries = <<>> THEN entries ELSE Tail(entries)

\* xdel(name, id): removes the entry with that id, if any
XDelEntries(entries, id) == SelectSeq(entries, LAMBDA e : e.id # id)
XDel(name, id) ==
    IF store[name].type = "stream"
    THEN [store EXCEPT ![name].entries = XDelEntries(@, id)]
    ELSE store

\* a transport or provider operation fails (ok = FALSE) only while the
\* failure budget lasts
Outcome(ok) ==
    /\ ok \/ faults < MaxFaults
    /\ faults' = IF ok THEN faults ELSE faults + 1

\* no HTTP handler is between two of its steps
Quiet == tok.pc = "idle" /\ http.op = "none"

\* the store removes a key when its time to live has run out
Elapse(ttl) == IF ttl = NoTTL THEN NoTTL ELSE ttl - TickSeconds
Expired(key) == expiry[key] # NoTTL /\ Elapse(expiry[key]) <= 0

Tick ==
    /\ Quiet
    /\ \E key \in Keys : expiry[key] # NoTTL
    /\ store' = [key \in Keys |-> IF Expired(key) THEN NoValue ELSE store[key]]
    /\ expiry' = [key \in Keys |->
                    IF Expired(key) THEN NoTTL ELSE Elapse(expiry[key])]
    /\ UNCHANGED <<nextId, deleted, issued, known, tok, http, conn,
                   active_connections, sent, delivered, frames, w, gptCalls,
                   replies, appends, faults>>
    /\ UNCHANGED got

----------------------------------------------------------------------------
(* Gateway: token issuance (POST /token) *)

NoHttp == [op |-> "none", arg |-> "", status |-> 0, body |-> NoDoc,
           detail |-> <<>>]
Response(op, arg, status, body, detail) ==
    [op |-> op, arg |-> arg, status |-> status, body |-> body,
     detail |-> detail]
NoTok == [pc |-> "idle", name |-> "", token |-> "", chat_session |-> NoDoc]

\* uuid.uuid4(): a value never produced before
uuid4 == Tokens \ issued

EnterValidName == <<"name", "Enter a valid name">>

\* a validation that tests for a missing name only
NameIsMissing(name) == name = NoToken

\* if name == "": raise HTTPException(status_code=400, ...)
NameRejected(name) == name = ""

\* token = str(uuid.uuid4()); chat_session = Chat(token=token, messages=[], name=name)
token_generator_start(name, token) ==
    /\ Quiet
    /\ IF NameRejected(name)
       THEN /\ http' = Response("token", name, 400, NoDoc, EnterValidName)
            /\ UNCHANGED <<tok, issued>>
       ELSE /\ token \in uuid4
            /\ tok' = [pc |-> "set", name |-> name, token |-> token,
                       chat_session |-> Chat(token, name)]
            /\ issued' = issued \cup {token}
            /\ UNCHANGED http
    /\ UNCHANGED <<store, expiry, nextId, deleted, known, conn,
                   active_connections, sent, delivered, frames, w, gptCalls,
                   replies, appends, faults>>
    /\ UNCHANGED got

\* await redis_client.json().set(str(token), Path.root_path(), chat_session.model_dump())
token_generator_set(ok) ==
    /\ tok.pc = "set"
    /\ Outcome(ok)
    /\ IF ok
       THEN /\ store' = JsonSet(tok.token, tok.chat_session)
            /\ tok' = [tok EXCEPT !.pc = "expire"]
            /\ UNCHANGED http
       ELSE /\ tok' = NoTok
            /\ http' = Response("token", tok.name, 500, NoDoc, <<>>)
            /\ UNCHANGED store
    /\ UNCHANGED <<expiry, nextId, deleted, issued, known, conn,
                   active_connections, sent, delivered, frames, w, gptCalls,
                   replies, appends>>
    /\ UNCHANGED got

\* await redis_client.expire(str(token), 3600); return chat_session.model_dump()
token_generator_expire(ok) ==
    /\ tok.pc = "expire"
    /\ Outcome(ok)
    /\ IF ok
       THEN /\ expiry' = Expire(tok.token, SessionTTL)
            /\ http' = Response("token", tok.name, 200, tok.chat_session, <<>>)
            /\ known' = known \cup {tok.token}
       ELSE /\ http' = Response("token", tok.name, 500, NoDoc, <<>>)
            /\ UNCHANGED <<expiry, known>>
    /\ tok' = NoTok
    /\ UNCHANGED <<store, nextId, deleted, issued, conn, active_connections,
                   sent, delivered, frames, w, gptCalls, replies, appends>>
    /\ UNCHANGED got

----------------------------------------------------------------------------
(* Gateway: history read (GET /chat_history) *)

SessionExpired == <<"Session expired or does not exist">>

\* data = await cache.get_chat_history(token); if data == None: raise
\* HTTPException(400, ...) else: return data
chat_history_response(token) ==
    IF JsonGetRaises(token)
    THEN Response("chat_history", token, 500, NoDoc, <<>>)
    ELSE IF JsonGetIsNone(token)
    THEN Response("chat_history", token, 400, NoDoc, SessionExpired)
    ELSE Response("chat_history", token, 200, JsonGet(token), <<>>)

chat_history(token) ==
    /\ Quiet
    /\ http' = chat_history_response(token)
    /\ UNCHANGED <<store, expiry, nextId, deleted, issued, known, tok, conn,
                   active_connections, sent, delivered, frames, w, gptCalls,
                   replies, appends, faults>>
    /\ UNCHANGED got

\* the caller has received the response
http_return ==
    /\ http.op # "none"
    /\ http' = NoHttp
    /\ UNCHANGED <<store, expiry, nextId, deleted, issued, known, tok, conn,
                   active_connections, sent, delivered, frames, w, gptCalls,
                   replies, appends, faults>>
    /\ UNCHANGED got

----------------------------------------------------------------------------
(* Connection registry *)

Remove(s, c) == SelectSeq(s, LAMBDA x : x # c)
InRegistry(c) ==
    \E i \in 1..Len(active_connections) : active_connections[i] = c

\* ConnectionManager.connect: await websocket.accept(); append
manager_connect(c) == Append(active_connections, c)

\* a disconnect that drops every connection registered before c as well
manager_disconnect_upto(c) ==
    SelectSeq(Remove(active_connections, c),
              LAMBDA x : \E i, j \in DOMAIN active_connections :
                            /\ active_connections[i] = c
                            /\ active_connections[j] = x
                            /\ i < j)

\* ConnectionManager.disconnect: remove
manager_disconnect(c) == Remove(active_connections, c)

----------------------------------------------------------------------------
(* Gateway: WebSocket /chat *)

NoConn == [pc |-> "new", token |-> "", data |-> "", response |-> <<>>,
           alive |-> FALSE, code |-> 0, reason |-> ""]

\* if token is None or token == "": raise WebSocketException(1008, ...)
TokenMissing(token) == token = NoToken \/ token = ""

\* isExists = await redis_client.exists(token); if isExists == 1: return token
TokenAccepted(token) == Exists(token)

get_token(c, token) ==
    /\ Quiet
    /\ conn[c].pc = "new"
    /\ IF TokenMissing(token)
       THEN conn' = [conn EXCEPT ![c].pc = "rejected",
                                 ![c].code = WS_1008_POLICY_VIOLATION,
                                 ![c].reason = "Token is required"]
       ELSE IF TokenAccepted(token)
       THEN conn' = [conn EXCEPT ![c].pc = "authenticated",
                                 ![c].token = token]
       ELSE conn' = [conn EXCEPT ![c].pc = "rejected",
                                 ![c].token = token,
                                 ![c].code = WS_1008_POLICY_VIOLATION,
                                 ![c].reason =
                                     "Session not authenticated or expired token"]
    /\ UNCHANGED <<store, expiry, nextId, deleted, issued, known, tok, http,
                   active_connections, sent, delivered, frames, w, gptCalls,
                   replies, appends, faults>>
    /\ UNCHANGED got

\* await manager.connect(websocket)
websocket_connect(c) ==
    /\ Quiet
    /\ conn[c].pc = "authenticated"
    /\ active_connections' = manager_connect(c)
    /\ conn' = [conn EXCEPT ![c].pc = "receive", ![c].alive = TRUE]
    /\ UNCHANGED <<store, expiry, nextId, deleted, issued, known, tok, http,
                   sent, delivered, frames, w, gptCalls, replies, appends,
                   faults>>
    /\ UNCHANGED got

\* the client closes its side of an accepted connection
client_disconnect(c) ==
    /\ Quiet
    /\ conn[c].pc \in {"receive", "publish", "read", "send", "delete"}
    /\ conn[c].alive
    /\ conn' = [conn EXCEPT ![c].alive = FALSE]
    /\ UNCHANGED <<store, expiry, nextId, deleted, issued, known, tok, http,
                   active_connections, sent, delivered, frames, w, gptCalls,
                   replies, appends, faults>>
    /\ UNCHANGED got

\* data = await websocket.receive_text()
\* except WebSocketDisconnect: manager.disconnect(websocket)
websocket_receive(c) ==
    /\ Quiet
    /\ conn[c].pc = "receive"
    /\ IF conn[c].alive
       THEN /\ frames < MaxFrames
            /\ conn' = [conn EXCEPT ![c].pc = "publish",
                                    ![c].data = Texts[(frames % Len(Texts)) + 1]]
            /\ frames' = frames + 1
            /\ UNCHANGED active_connections
       ELSE /\ conn' = [conn EXCEPT ![c].pc = "closed"]
            /\ active_connections' = manager_disconnect(c)
            /\ UNCHANGED frames
    /\ UNCHANGED <<store, expiry, nextId, deleted, issued, known, tok, http,
                   sent, delivered, w, gptCalls, replies, appends, faults>>
    /\ UNCHANGED got

\* Producer.add_to_stream: the id of the new entry, or None (0) when the
\* transport's append fails; nothing is raised
add_to_stream(ok) == IF ok THEN XAddId ELSE 0

\* a relay loop that gives up when add_to_stream returned None
AfterPublishChecked(c, result) ==
    [conn EXCEPT ![c].pc = IF result = 0 THEN "failed" ELSE "read"]

\* a relay loop that goes back to the receive after the publish
AfterPublishNoRead(c, result) == [conn EXCEPT ![c].pc = "receive"]

\* the relay loop after add_to_stream returned `result` (an entry id, or 0
\* for None): the result is not looked at
AfterPublish(c, result) == [conn EXCEPT ![c].pc = "read"]

\* a gateway with one store connection for all tasks: a publish waits while
\* any task is blocked in its read
websocket_publish_shared(c, ok) ==
    /\ Quiet
    /\ conn[c].pc = "publish"
    /\ \A d \in Conns :
           conn[d].pc = "read" => XReadReady(response_channel(conn[d].token))
    /\ Outcome(ok)
    /\ store' = XAdd(message_channel, conn[c].token, conn[c].data, 0)
    /\ nextId' = nextId + 1
    /\ sent' = [sent EXCEPT ![c] =
                    Append(@, [id |-> XAddId, text |-> conn[c].data])]
    /\ conn' = [conn EXCEPT ![c].pc = "read"]
    /\ UNCHANGED <<expiry, deleted, issued, known, tok, http,
                   active_connections, delivered, frames, w, gptCalls,
                   replies, appends, got>>

\* stream_data[token] = data
\* await producer.add_to_stream(data=stream_data, stream_channel=message_channel)
\* Producer.add_to_stream answers None when the append fails
websocket_publish(c, ok) ==
    /\ Quiet
    /\ conn[c].pc = "publish"
    /\ Outcome(ok)
    /\ IF ok
       THEN /\ store' = XAdd(message_channel, conn[c].token, conn[c].data, 0)
            /\ nextId' = nextId + 1
            /\ sent' = [sent EXCEPT ![c] =
                            Append(@, [id |-> add_to_stream(ok),
                                       text |-> conn[c].data])]
       ELSE /\ sent' = [sent EXCEPT ![c] =
                            Append(@, [id |-> add_to_stream(ok),
                                       text |-> conn[c].data])]
            /\ UNCHANGED <<store, nextId>>
    /\ conn' = AfterPublish(c, add_to_stream(ok))
    /\ UNCHANGED <<expiry, deleted, issued, known, tok, http,
                   active_connections, delivered, frames, w, gptCalls,
                   replies, appends>>
    /\ UNCHANGED got

\* a relay loop that deletes the entries it read without sending them
websocket_read_then_delete(c, ok) ==
    /\ Quiet
    /\ conn[c].pc = "read"
    /\ Outcome(ok)
    /\ IF ok
       THEN /\ XReadReady(response_channel(conn[c].token))
            /\ conn' = [conn EXCEPT
                          ![c].pc = "delete",
                          ![c].response =
                              XRead(response_channel(conn[c].token), 1)]
       ELSE conn' = [conn EXCEPT ![c].pc = "failed"]
    /\ UNCHANGED <<store, expiry, nextId, deleted, issued, known, tok, http,
                   active_connections, sent, delivered, frames, w, gptCalls,
                   replies, appends, got>>

\* a read that does not block: on an empty stream it returns no entries and
\* the loop goes back to the receive
websocket_read_nonblocking(c, ok) ==
    /\ Quiet
    /\ conn[c].pc = "read"
    /\ Outcome(ok)
    /\ IF ok
       THEN conn' = [conn EXCEPT
                       ![c].pc = IF XReadReady(response_channel(conn[c].token))
                                 THEN "send" ELSE "receive",
                       ![c].response =
                           XRead(response_channel(conn[c].token), 1)]
       ELSE conn' = [conn EXCEPT ![c].pc = "failed"]
    /\ UNCHANGED <<store, expiry, nextId, deleted, issued, known, tok, http,
                   active_connections, sent, delivered, frames, w, gptCalls,
                   replies, appends, got>>

\* response = await consumer.consume_stream(stream_channel=response_channel,
\*                                          count=1, block=0)
websocket_read(c, ok) ==
    /\ Quiet
    /\ conn[c].pc = "read"
    /\ Outcome(ok)
    /\ IF ok
       THEN /\ XReadReady(response_channel(conn[c].token))
            /\ conn' = [conn EXCEPT
                          ![c].pc = "send",
                          ![c].response =
                              XRead(response_channel(conn[c].token), 1)]
       ELSE conn' = [conn EXCEPT ![c].pc = "failed"]
    /\ UNCHANGED <<store, expiry, nextId, deleted, issued, known, tok, http,
                   active_connections, sent, delivered, frames, w, gptCalls,
                   replies, appends>>
    /\ UNCHANGED got

\* message_text = message_data[b'message'].decode('utf-8')
\* await manager.send_personal_message(message_text, websocket)
\* A send to a client that has gone raises: WebSocketDisconnect (`gone`), or
\* another error, depending on the server underneath.
websocket_send(c, gone) ==
    /\ Quiet
    /\ conn[c].pc = "send"
    /\ IF Head(conn[c].response).k # "message"
       THEN /\ conn' = [conn EXCEPT ![c].pc = "failed"]
            /\ UNCHANGED <<delivered, active_connections>>
       ELSE IF conn[c].alive
       THEN /\ delivered' = [delivered EXCEPT ![c] =
                    Append(@, [text |-> Head(conn[c].response).v,
                               req |-> Head(conn[c].response).req,
                               id |-> Head(conn[c].response).id])]
            /\ conn' = [conn EXCEPT ![c].pc = "delete"]
            /\ UNCHANGED active_connections
       ELSE IF gone
       THEN /\ conn' = [conn EXCEPT ![c].pc = "closed"]
            /\ active_connections' = manager_disconnect(c)
            /\ UNCHANGED delivered
       ELSE /\ conn' = [conn EXCEPT ![c].pc = "failed"]
            /\ UNCHANGED <<delivered, active_connections>>
    /\ UNCHANGED <<store, expiry, nextId, deleted, issued, known, tok, http,
                   sent, frames, w, gptCalls, replies, appends, faults>>
    /\ UNCHANGED got

\* await consumer.delete_message(stream_channel=response_channel,
\*                               message_id=message_id)
websocket_delete(c, ok) ==
    /\ Quiet
    /\ conn[c].pc = "delete"
    /\ Outcome(ok)
    /\ IF ok
       THEN /\ store' = XDel(response_channel(conn[c].token),
                             Head(conn[c].response).id)
            /\ deleted' = deleted \cup {<<response_channel(conn[c].token),
                                          Head(conn[c].response).id>>}
            /\ conn' = [conn EXCEPT
                          ![c].response = Tail(@),
                          ![c].pc = IF Tail(conn[c].response) = <<>>
                                    THEN "receive" ELSE "send"]
       ELSE /\ conn' = [conn EXCEPT ![c].pc = "failed"]
            /\ UNCHANGED <<store, deleted>>
    /\ UNCHANGED <<expiry, nextId, issued, known, tok, http,
                   active_connections, sent, delivered, frames, w, gptCalls,
                   replies, appends>>
    /\ UNCHANGED got

----------------------------------------------------------------------------
(* Worker *)

Max(a, b) == IF a > b THEN a ELSE b
Min(a, b) == IF a < b THEN a ELSE b

\* the first `limit` messages instead of the last
FirstMessages(messages, limit) ==
    SubSeq(messages, 1, Min(Max(limit, 0), Len(messages)))

\* the conventional truncation: the last min(max(limit, 0), len) messages
ClampedMessages(messages, limit) ==
    SubSeq(messages, Len(messages) - Min(Max(limit, 0), Len(messages)) + 1,
           Len(messages))

\* data['messages'][-limit:]
LastMessages(messages, limit) ==
    SubSeq(messages,
           (IF limit > 0 THEN Max(Len(messages) - limit, 0)
                         ELSE Min(-limit, Len(messages))) + 1,
           Len(messages))

\* Cache.get_chat_history(token, limit): the document with its messages cut
\* to the last `limit`
get_chat_history(token, limit) ==
    [JsonGet(token) EXCEPT !.messages = LastMessages(@, limit)]

\* a direct call of a Cache method: the arguments and the value returned
NoCall == [op |-> "none", token |-> "", limit |-> 0, messages |-> <<>>,
           stored |-> <<>>, data |-> NoDoc]

\* the sequences over S of length at most n
SeqsUpTo(S, n) == UNION {[1..k -> S] : k \in 0..n}

\* the messages direct calls append
CacheMessages == {Message("hi", "user"), Message("r1", "assistant")}

\* await cache.get_chat_history(token=token, limit=limit), called directly
\* on an existing session
cache_get_chat_history(token, limit) ==
    /\ Quiet
    /\ store[token].type = "json"
    /\ got' = [op |-> "get", token |-> token, limit |-> limit,
               messages |-> <<>>, stored |-> JsonGet(token).messages,
               data |-> get_chat_history(token, limit)]
    /\ UNCHANGED <<store, expiry, nextId, deleted, issued, known, tok, http,
                   conn, active_connections, sent, delivered, frames, w,
                   gptCalls, replies, appends, faults>>

\* await cache.add_messages_to_cache(token=token, messages=messages), called
\* directly on an existing session
cache_add_messages_to_cache(token, messages) ==
    /\ Quiet
    /\ ~ArrAppendRaises(token)
    /\ Len(JsonGet(token).messages) + Len(messages) <= MaxStored
    /\ store' = ArrAppend(token, messages)
    /\ got' = [op |-> "add", token |-> token, limit |-> 0,
               messages |-> messages, stored |-> JsonGet(token).messages,
               data |-> NoDoc]
    /\ UNCHANGED <<expiry, nextId, deleted, issued, known, tok, http, conn,
                   active_connections, sent, delivered, frames, w, gptCalls,
                   replies, appends, faults>>

\* the ids the store can assign within the bounds
Ids == 1..(MaxFrames * (MaxFaults + 2))

NoMessage == [msg |-> "", source |-> ""]
NoWork == [pc |-> "read", id |-> 0, token |-> "", text |-> "",
           all_messages |-> <<>>, gpt_message |-> NoMessage, error |-> "",
           closes |-> 0, close_error |-> FALSE]

\* an exception leaves the `while True` loop: except Exception, then finally
WorkerFails(op) == [w EXCEPT !.pc = "cleanup", !.error = op]

\* response = await consumer.consume_stream(stream_channel="message_channel",
\*                                          count=1, block=0)
\* token, text = [(k, v) for k, v in message_data.items()][0]
worker_read(ok) ==
    /\ Quiet
    /\ w.pc = "read"
    /\ Outcome(ok)
    /\ IF ok
       THEN /\ XReadReady(message_channel)
            /\ w' = [NoWork EXCEPT
                       !.pc = "history",
                       !.id = Head(XRead(message_channel, 1)).id,
                       !.token = Head(XRead(message_channel, 1)).k,
                       !.text = Head(XRead(message_channel, 1)).v]
       ELSE w' = WorkerFails("read")
    /\ UNCHANGED <<store, expiry, nextId, deleted, issued, known, tok, http,
                   conn, active_connections, sent, delivered, frames,
                   gptCalls, replies, appends>>
    /\ UNCHANGED got

\* the history cut to the 5 messages the comment in the code speaks of
AfterHistoryAsCommented(isNone) ==
    IF isNone
    THEN [w EXCEPT !.pc = "delete"]
    ELSE [w EXCEPT !.pc = "query",
                   !.all_messages =
                       get_chat_history(w.token, HistoryLimit \div 2).messages
                       \o <<Message(w.text, "user")>>]

\* chat_history = await cache.get_chat_history(token=token, limit=10)
\* if not chat_history: return
\* all_messages = history_messages + [new_message]
AfterHistory(isNone) ==
    IF isNone
    THEN [w EXCEPT !.pc = "delete"]
    ELSE [w EXCEPT !.pc = "query",
                   !.all_messages =
                       get_chat_history(w.token, HistoryLimit).messages
                       \o <<Message(w.text, "user")>>]

worker_history(ok) ==
    /\ Quiet
    /\ w.pc = "history"
    /\ Outcome(ok)
    /\ w' = IF ~ok \/ JsonGetRaises(w.token)
            THEN WorkerFails("history")
            ELSE AfterHistory(JsonGetIsNone(w.token))
    /\ UNCHANGED <<store, expiry, nextId, deleted, issued, known, tok, http,
                   conn, active_connections, sent, delivered, frames,
                   gptCalls, replies, appends>>
    /\ UNCHANGED got

\* gpt_message = await gpt.query(messages=all_messages)
ProviderError == "<error>"

\* a provider error answered with a canned reply instead of being raised
worker_query_fallback(r, ok) ==
    /\ Quiet
    /\ w.pc = "query"
    /\ Outcome(ok)
    /\ gptCalls' = [gptCalls EXCEPT ![w.id] =
                        Append(@, IF ok THEN r ELSE ProviderError)]
    /\ w' = [w EXCEPT !.pc = "publish",
                      !.gpt_message = Message(r, "assistant")]
    /\ UNCHANGED <<store, expiry, nextId, deleted, issued, known, tok, http,
                   conn, active_connections, sent, delivered, frames,
                   replies, appends, got>>

worker_query(r, ok) ==
    /\ Quiet
    /\ w.pc = "query"
    /\ Outcome(ok)
    /\ gptCalls' = [gptCalls EXCEPT ![w.id] =
                        Append(@, IF ok THEN r ELSE ProviderError)]
    /\ w' = IF ok
            THEN [w EXCEPT !.pc = "publish",
                           !.gpt_message = Message(r, "assistant")]
            ELSE WorkerFails("query")
    /\ UNCHANGED <<store, expiry, nextId, deleted, issued, known, tok, http,
                   conn, active_connections, sent, delivered, frames,
                   replies, appends>>
    /\ UNCHANGED got

\* a publish after which the expiry of the response stream is left out
worker_publish_no_expire(ok) ==
    /\ Quiet
    /\ w.pc = "publish"
    /\ Outcome(ok)
    /\ IF ok
       THEN /\ store' = XAdd(response_channel(w.token), "message",
                             w.gpt_message.msg, w.id)
            /\ nextId' = nextId + 1
            /\ replies' = [replies EXCEPT ![w.id] = @ + 1]
       ELSE UNCHANGED <<store, nextId, replies>>
    /\ w' = [w EXCEPT !.pc = "append"]
    /\ UNCHANGED <<expiry, deleted, issued, known, tok, http, conn,
                   active_connections, sent, delivered, frames, gptCalls,
                   appends, got>>

\* stream_data = {"message": gpt_message.msg}
\* await producer.add_to_stream(stream_data, f"response_channel_{token}")
worker_publish(ok) ==
    /\ Quiet
    /\ w.pc = "publish"
    /\ Outcome(ok)
    /\ IF ok
       THEN /\ store' = XAdd(response_channel(w.token), "message",
                             w.gpt_message.msg, w.id)
            /\ nextId' = nextId + 1
            /\ replies' = [replies EXCEPT ![w.id] = @ + 1]
       ELSE UNCHANGED <<store, nextId, replies>>
    /\ w' = [w EXCEPT !.pc = "expire"]
    /\ UNCHANGED <<expiry, deleted, issued, known, tok, http, conn,
                   active_connections, sent, delivered, frames, gptCalls,
                   appends>>
    /\ UNCHANGED got

\* an expire that names the session key instead of the response stream
worker_expire_session(ok) ==
    /\ Quiet
    /\ w.pc = "expire"
    /\ Outcome(ok)
    /\ expiry' = IF ok THEN Expire(w.token, StreamTTL) ELSE expiry
    /\ w' = [w EXCEPT !.pc = "append"]
    /\ UNCHANGED <<store, nextId, deleted, issued, known, tok, http, conn,
                   active_connections, sent, delivered, frames, gptCalls,
                   replies, appends, got>>

\* await producer.expire(f"response_channel_{token}", 3600)
worker_expire(ok) ==
    /\ Quiet
    /\ w.pc = "expire"
    /\ Outcome(ok)
    /\ expiry' = IF ok THEN Expire(response_channel(w.token), StreamTTL)
                       ELSE expiry
    /\ w' = [w EXCEPT !.pc = "append"]
    /\ UNCHANGED <<store, nextId, deleted, issued, known, tok, http, conn,
                   active_connections, sent, delivered, frames, gptCalls,
                   replies, appends>>
    /\ UNCHANGED got

\* only the reply is appended
OnlyReply == <<w.gpt_message>>

\* the two messages appended in the wrong order
NewMessagesAssistantFirst == <<w.gpt_message, Message(w.text, "user")>>

\* await cache.add_messages_to_cache(token=token,
\*     messages=[new_message.model_dump(), gpt_message.model_dump()])
NewMessages == <<Message(w.text, "user"), w.gpt_message>>

\* a loop that goes back to the read after the append, without the delete
worker_append_no_delete(ok) ==
    /\ Quiet
    /\ w.pc = "append"
    /\ Outcome(ok)
    /\ IF ~ok \/ ArrAppendRaises(w.token)
       THEN /\ w' = WorkerFails("append")
            /\ UNCHANGED <<store, appends>>
       ELSE /\ store' = ArrAppend(w.token, NewMessages)
            /\ appends' = [appends EXCEPT ![w.id] = @ + 1]
            /\ w' = NoWork
    /\ UNCHANGED <<expiry, nextId, deleted, issued, known, tok, http, conn,
                   active_connections, sent, delivered, frames, gptCalls,
                   replies, got>>

worker_append(ok) ==
    /\ Quiet
    /\ w.pc = "append"
    /\ Outcome(ok)
    /\ IF ~ok \/ ArrAppendRaises(w.token)
       THEN /\ w' = WorkerFails("append")
            /\ UNCHANGED <<store, appends>>
       ELSE /\ store' = ArrAppend(w.token, NewMessages)
            /\ appends' = [appends EXCEPT ![w.id] = @ + 1]
            /\ w' = [w EXCEPT !.pc = "delete"]
    /\ UNCHANGED <<expiry, nextId, deleted, issued, known, tok, http, conn,
                   active_connections, sent, delivered, frames, gptCalls,
                   replies>>
    /\ UNCHANGED got

\* a worker that leaves its loop after the first entry it has handled
worker_delete_once(ok) ==
    /\ Quiet
    /\ w.pc = "delete"
    /\ Outcome(ok)
    /\ store' = XDel(message_channel, w.id)
    /\ deleted' = deleted \cup {<<message_channel, w.id>>}
    /\ w' = [NoWork EXCEPT !.pc = "stopped"]
    /\ UNCHANGED <<expiry, nextId, issued, known, tok, http, conn,
                   active_connections, sent, delivered, frames, gptCalls,
                   replies, appends, got>>

\* await consumer.delete_message(stream_channel="message_channel",
\*                               message_id=message_id)
worker_delete(ok) ==
    /\ Quiet
    /\ w.pc = "delete"
    /\ Outcome(ok)
    /\ IF ok
       THEN /\ store' = XDel(message_channel, w.id)
            /\ deleted' = deleted \cup {<<message_channel, w.id>>}
            /\ w' = NoWork
       ELSE /\ w' = WorkerFails("delete")
            /\ UNCHANGED <<store, deleted>>
    /\ UNCHANGED <<expiry, nextId, issued, known, tok, http, conn,
                   active_connections, sent, delivered, frames, gptCalls,
                   replies, appends>>
    /\ UNCHANGED got

\* an exchange the worker completed before the run: its turn was appended to
\* the history of the session by
\* await cache.add_messages_to_cache(token=token,
\*     messages=[new_message.model_dump(), gpt_message.model_dump()])
\* The texts of successive turns differ.
EarlierTurn(k) == <<Message(Texts[(k % 3) + 1], "user"),
                    Message("r1", "assistant")>>

earlier_exchange(token) ==
    /\ Quiet
    /\ w.pc = "read"
    /\ frames = 0
    /\ ~ArrAppendRaises(token)
    /\ Len(JsonGet(token).messages) < 2 * MaxTurns
    /\ store' = ArrAppend(token,
                          EarlierTurn(Len(JsonGet(token).messages) \div 2))
    /\ UNCHANGED <<expiry, nextId, deleted, issued, known, tok, http, conn,
                   active_connections, sent, delivered, frames, w, gptCalls,
                   replies, appends, faults, got>>

\* an interrupt that ends the worker at once
worker_interrupt_abrupt ==
    /\ Quiet
    /\ w.pc \notin {"cleanup", "stopped"}
    /\ Outcome(FALSE)
    /\ w' = [w EXCEPT !.pc = "stopped", !.error = "interrupt"]
    /\ UNCHANGED <<store, expiry, nextId, deleted, issued, known, tok, http,
                   conn, active_connections, sent, delivered, frames,
                   gptCalls, replies, appends, got>>

\* except KeyboardInterrupt: the worker is interrupted while it waits in one
\* of its awaits.  Interrupts count as failures in the failure budget.
worker_interrupt ==
    /\ Quiet
    /\ w.pc \notin {"cleanup", "stopped"}
    /\ Outcome(FALSE)
    /\ w' = WorkerFails("interrupt")
    /\ UNCHANGED <<store, expiry, nextId, deleted, issued, known, tok, http,
                   conn, active_connections, sent, delivered, frames,
                   gptCalls, replies, appends, got>>

\* finally:
\*     try: await redis_client.aclose()
\*     except Exception as e: print(f"Error closing Redis connection: {e}")
worker_cleanup(ok) ==
    /\ Quiet
    /\ w.pc = "cleanup"
    /\ w' = [w EXCEPT !.pc = "stopped",
                      !.closes = @ + 1,
                      !.close_error = ~ok]
    /\ UNCHANGED <<store, expiry, nextId, deleted, issued, known, tok, http,
                   conn, active_connections, sent, delivered, frames,
                   gptCalls, replies, appends, faults, got>>

\* asyncio.run(main()): the worker process is started again
worker_start ==
    /\ Quiet
    /\ w.pc = "stopped"
    /\ w' = NoWork
    /\ UNCHANGED <<store, expiry, nextId, deleted, issued, known, tok, http,
                   conn, active_connections, sent, delivered, frames,
                   gptCalls, replies, appends, faults>>
    /\ UNCHANGED got

----------------------------------------------------------------------------
(* Specifications *)

Init ==
    /\ store = [key \in Keys |-> NoValue]
    /\ expiry = [key \in Keys |-> NoTTL]
    /\ nextId = 1
    /\ deleted = {}
    /\ issued = {}
    /\ known = {}
    /\ tok = NoTok
    /\ http = NoHttp
    /\ conn = [c \in Conns |-> NoConn]
    /\ active_connections = <<>>
    /\ sent = [c \in Conns |-> <<>>]
    /\ delivered = [c \in Conns |-> <<>>]
    /\ frames = 0
    /\ w = NoWork
    /\ gptCalls = [id \in Ids |-> <<>>]
    /\ replies = [id \in Ids |-> 0]
    /\ appends = [id \in Ids |-> 0]
    /\ faults = 0
    /\ got = NoCall

\* what a client can put in ?token= without holding a session's token
Guesses == {"bogus", message_channel}
HandshakeGuesses == Guesses \cup {NoToken, ""}

\* the tokens a client can hold or guess
Guessable == known \cup Guesses

Issue(tokens, oks) ==
    \/ \E name \in Names : \E token \in tokens :
           token_generator_start(name, token)
    \/ \E ok \in oks : token_generator_set(ok)
    \/ \E ok \in oks : token_generator_expire(ok)
    \/ http_return

History == \E token \in Guessable : chat_history(token)

Relay(Cs, guesses, oks) ==
    \/ \E c \in Cs : \E token \in known \cup guesses : get_token(c, token)
    \/ \E c \in Cs : websocket_connect(c)
    \/ \E c \in Cs : client_disconnect(c)
    \/ \E c \in Cs : websocket_receive(c)
    \/ \E c \in Cs : \E ok \in oks : websocket_publish(c, ok)
    \/ \E c \in Cs : \E ok \in oks : websocket_read(c, ok)
    \/ \E c \in Cs : \E gone \in BOOLEAN : websocket_send(c, gone)
    \/ \E c \in Cs : \E ok \in oks : websocket_delete(c, ok)

Worker(rs, oks) ==
    \/ \E ok \in oks : worker_read(ok)
    \/ \E ok \in oks : worker_history(ok)
    \/ \E r \in rs : \E ok \in oks : worker_query(r, ok)
    \/ \E ok \in oks : worker_publish(ok)
    \/ \E ok \in oks : worker_expire(ok)
    \/ \E ok \in oks : worker_append(ok)
    \/ \E ok \in oks : worker_delete(ok)


\* one session, two connections; every store and provider operation succeeds
Next ==
    \/ Issue({"t1"}, {TRUE})
    \/ History
    \/ Relay(Conns, HandshakeGuesses, {TRUE})
    \/ Worker({"r1"}, {TRUE})
    \/ worker_cleanup(TRUE)

Spec == Init /\ [][Next]_vars

\* two sessions, one connection, any reply; every operation succeeds
NextSessions ==
    \/ Issue(Tokens, {TRUE})
    \/ History
    \/ Relay({"c1"}, HandshakeGuesses, {TRUE})
    \/ Worker(Replies, {TRUE})

SpecSessions == Init /\ [][NextSessions]_vars

\* one session; store and provider operations may fail, and a worker that
\* has stopped is started again
NextFaults ==
    \/ Issue({"t1"}, BOOLEAN)
    \/ Relay(Conns, HandshakeGuesses, BOOLEAN)
    \/ Worker({"r1"}, BOOLEAN)
    \/ worker_cleanup(TRUE)
    \/ worker_start

SpecFaults == Init /\ [][NextFaults]_vars

\* one session, one connection; the worker's store and provider operations
\* may fail, and a worker that has stopped is started again
NextWorkerFaults ==
    \/ Issue({"t1"}, {TRUE})
    \/ History
    \/ Relay({"c1"}, HandshakeGuesses, {TRUE})
    \/ Worker({"r1"}, BOOLEAN)
    \/ worker_cleanup(TRUE)
    \/ worker_start

SpecWorkerFaults == Init /\ [][NextWorkerFaults]_vars

\* one session; the gateway's store operations may fail
NextGatewayFaults ==
    \/ Issue({"t1"}, BOOLEAN)
    \/ Relay(Conns, HandshakeGuesses, BOOLEAN)
    \/ Worker({"r1"}, {TRUE})
    \/ worker_cleanup(TRUE)

SpecGatewayFaults == Init /\ [][NextGatewayFaults]_vars

\* the steps of a token issuance after its first
Handlers ==
    \/ token_generator_set(TRUE)
    \/ token_generator_expire(TRUE)
    \/ http_return

\* one session, two connections holding its token, one of the clients may go
\* away; the relay loop's store operations may fail
NextRelayFaults ==
    \/ token_generator_start("Alice", "t1")
    \/ Handlers
    \/ \E c \in Conns : \E token \in known : get_token(c, token)
    \/ \E c \in Conns : websocket_connect(c)
    \/ client_disconnect("c1")
    \/ \E c \in Conns : websocket_receive(c)
    \/ \E c \in Conns : \E ok \in BOOLEAN : websocket_publish(c, ok)
    \/ \E c \in Conns : \E ok \in BOOLEAN : websocket_read(c, ok)
    \/ \E c \in Conns : \E gone \in BOOLEAN : websocket_send(c, gone)
    \/ \E c \in Conns : \E ok \in BOOLEAN : websocket_delete(c, ok)
    \/ Worker({"r1"}, {TRUE})

SpecRelayFaults == Init /\ [][NextRelayFaults]_vars

\* two sessions, two connections holding issued tokens, one of the clients
\* may go away; every operation succeeds
NextTwoSessions ==
    \/ \E token \in Tokens : token_generator_start("Alice", token)
    \/ token_generator_set(TRUE)
    \/ token_generator_expire(TRUE)
    \/ http_return
    \/ \E c \in Conns : \E token \in known : get_token(c, token)
    \/ \E c \in Conns : websocket_connect(c)
    \/ client_disconnect("c1")
    \/ \E c \in Conns : websocket_receive(c)
    \/ \E c \in Conns : websocket_publish(c, TRUE)
    \/ \E c \in Conns : websocket_read(c, TRUE)
    \/ \E c \in Conns : \E gone \in BOOLEAN : websocket_send(c, gone)
    \/ \E c \in Conns : websocket_delete(c, TRUE)
    \/ Worker({"r1"}, {TRUE})

SpecTwoSessions == Init /\ [][NextTwoSessions]_vars

\* one session, one connection, keys expire; every operation succeeds, a
\* send to a client that has gone is reported as a disconnect, and every
\* task that can take a step eventually takes one
RelayTask(c) ==
    \/ websocket_connect(c)
    \/ websocket_receive(c)
    \/ websocket_publish(c, TRUE)
    \/ websocket_read(c, TRUE)
    \/ websocket_send(c, TRUE)
    \/ websocket_delete(c, TRUE)

WorkerTask == Worker({"r1"}, {TRUE}) \/ worker_cleanup(TRUE)

NextLive ==
    \/ token_generator_start("Alice", "t1")
    \/ Handlers
    \/ \E token \in known \cup HandshakeGuesses : get_token("c1", token)
    \/ client_disconnect("c1")
    \/ RelayTask("c1")
    \/ WorkerTask
    \/ Tick

SpecLive ==
    /\ Init
    /\ [][NextLive]_vars
    /\ WF_vars(Handlers)
    /\ WF_vars(RelayTask("c1"))
    /\ WF_vars(WorkerTask)

\* one session, two connections; the worker's store and provider operations
\* may fail; every task that can take a step eventually takes one
FallibleWorkerTask == Worker({"r1"}, BOOLEAN) \/ worker_cleanup(TRUE)

NextLiveFaults ==
    \/ token_generator_start("Alice", "t1")
    \/ Handlers
    \/ \E c \in Conns : \E token \in known : get_token(c, token)
    \/ \E c \in Conns : RelayTask(c)
    \/ FallibleWorkerTask

SpecLiveFaults ==
    /\ Init
    /\ [][NextLiveFaults]_vars
    /\ WF_vars(Handlers)
    /\ \A c \in Conns : WF_vars(RelayTask(c))
    /\ WF_vars(FallibleWorkerTask)

\* one session, two connections holding its token, one of the clients may go
\* away; every operation succeeds and every task that can take a step
\* eventually takes one
NextLiveSessions ==
    \/ token_generator_start("Alice", "t1")
    \/ Handlers
    \/ \E c \in Conns : \E token \in known : get_token(c, token)
    \/ client_disconnect("c1")
    \/ \E c \in Conns : RelayTask(c)
    \/ Worker({"r1"}, {TRUE})

SpecLiveSessions ==
    /\ Init
    /\ [][NextLiveSessions]_vars
    /\ WF_vars(Handlers)
    /\ \A c \in Conns : WF_vars(RelayTask(c))
    /\ WF_vars(Worker({"r1"}, {TRUE}))

\* the session store under direct calls of the Cache methods, next to token
\* issuance and history reads
CacheCalls ==
    \/ \E token \in Tokens : \E limit \in (0 - MaxLimit)..MaxLimit :
           cache_get_chat_history(token, limit)
    \/ \E token \in Tokens : \E messages \in SeqsUpTo(CacheMessages, MaxAppend) :
           cache_add_messages_to_cache(token, messages)

NextCache ==
    \/ Issue({"t1"}, {TRUE})
    \/ History
    \/ CacheCalls

SpecCache == Init /\ [][NextCache]_vars

\* one session; time passes and keys expire
NextExpiry ==
    \/ Issue({"t1"}, {TRUE})
    \/ History
    \/ Relay({"c1"}, HandshakeGuesses, {TRUE})
    \/ Worker({"r1"}, {TRUE})
    \/ worker_cleanup(TRUE)
    \/ Tick

SpecExpiry == Init /\ [][NextExpiry]_vars

\* one session with a history of earlier exchanges, one connection; every
\* operation succeeds
NextHistory ==
    \/ Issue({"t1"}, {TRUE})
    \/ earlier_exchange("t1")
    \/ Relay({"c1"}, {}, {TRUE})
    \/ Worker({"r1"}, {TRUE})

SpecHistory == Init /\ [][NextHistory]_vars

\* one session, one connection; the worker's operations may fail, the close
\* of its store connection included, and the worker may be interrupted; a
\* worker that has stopped is started again
NextShutdown ==
    \/ Issue({"t1"}, {TRUE})
    \/ Relay({"c1"}, {}, {TRUE})
    \/ Worker({"r1"}, BOOLEAN)
    \/ worker_interrupt
    \/ \E ok \in BOOLEAN : worker_cleanup(ok)
    \/ worker_start

SpecShutdown == Init /\ [][NextShutdown]_vars

----------------------------------------------------------------------------
(* Properties *)

RequestEntries == store[message_channel].entries
SessionExists(token) == store[token].type = "json"
Last(s) == s[Len(s)]

\* C1: a handshake whose token is missing, empty or not the token of an
\* existing session is rejected with close code 1008 before the connection is
\* accepted: only connections that presented a session's token get past the
\* handshake or into the registry, and every request entry is keyed by a
\* session's token.
C1_RejectedBeforeAccept ==
    /\ \A c \in Conns :
        /\ conn[c].pc = "rejected" => conn[c].code = WS_1008_POLICY_VIOLATION
        /\ conn[c].pc \notin {"new", "rejected"} => conn[c].token \in known
        /\ InRegistry(c) => conn[c].token \in known
    /\ \A i \in DOMAIN RequestEntries : RequestEntries[i].k \in known

\* C2: the k-th text delivered on a connection is the reply produced for the
\* request entry published for the k-th frame sent on that connection.
C2_ReplyOfKthFrame ==
    \A c \in Conns : \A k \in DOMAIN delivered[c] :
        /\ k <= Len(sent[c])
        /\ delivered[c][k].req = sent[c][k].id

\* the only frame sent with the token of connection c is c's first, and the
\* worker has handled its request entry to the end of process_message
OneFrameHandled(c) ==
    /\ conn[c].token \in known
    /\ Len(sent[c]) = 1
    /\ \A d \in Conns \ {c} : conn[d].token = conn[c].token => sent[d] = <<>>
    /\ appends[sent[c][1].id] = 1

\* C3: once a token is issued, a client has connected with it and sent one
\* frame, and the worker has handled the request with the language model
\* returning R: what the gateway delivers to that client is exactly R, once,
\* and a history read of the token shows exactly the user message with the
\* sent text followed by the assistant message with text R.
C3_EndToEnd ==
    \A c \in Conns :
        OneFrameHandled(c) =>
            LET token == conn[c].token
                request == sent[c][1]
                R == Last(gptCalls[request.id])
                turn == <<Message(request.text, "user"),
                          Message(R, "assistant")>>
            IN  /\ Len(gptCalls[request.id]) = 1
                /\ R \in Replies
                /\ \A k \in DOMAIN delivered[c] :
                       k = 1 /\ delivered[c][k].text = R
                /\ conn[c].pc \in {"delete", "receive"} =>
                       /\ Len(delivered[c]) = 1
                       /\ delivered[c][1].text = R
                       /\ delivered[c][1].req = request.id
                /\ JsonGet(token).messages = turn
                /\ (http.op = "chat_history" /\ http.arg = token) =>
                       /\ http.status = 200
                       /\ http.body = [token |-> token, messages |-> turn,
                                       name |-> "Alice"]

C3_Witness ==
    \E c \in Conns :
        /\ OneFrameHandled(c)
        /\ Len(delivered[c]) = 1
        /\ http.op = "chat_history"
        /\ http.arg = conn[c].token
        /\ Len(http.body.messages) = 2

\* C4: a request entry of an existing session that the worker has read is
\* deleted from message_channel once its handling is over, also when the
\* handling raised (history read, language model, history append): the worker
\* is never stopped by such an error with the entry still in the stream.
C4_DeletedAfterHandling ==
    (/\ w.pc = "stopped"
     /\ w.error \in {"history", "query", "append"}
     /\ SessionExists(w.token))
        => \A i \in DOMAIN RequestEntries : RequestEntries[i].id # w.id

\* C5: no request entry causes more than one language-model call, more than
\* one published reply or more than one history append, also over runs in
\* which an operation fails and the worker loop exits and is started again.
C5_ExactlyOnce ==
    \A id \in Ids :
        /\ Len(gptCalls[id]) <= 1
        /\ replies[id] <= 1
        /\ appends[id] <= 1

\* C6: an entry that was deleted from a stream is not returned by any later
\* read of that stream, whatever was published to this or other streams in
\* between.
C6_DeletedNeverRead ==
    \A name \in Keys : \A count \in 1..2 :
        \A i \in DOMAIN XRead(name, count) :
            <<name, XRead(name, count)[i].id>> \notin deleted

C6_Witness ==
    /\ <<message_channel, 1>> \in deleted
    /\ store[message_channel].type = "stream"
    /\ XRead(message_channel, 1) = <<>>
    /\ XReadReady(response_channel("t1"))
    /\ \E id \in Ids : <<response_channel("t1"), id>> \in deleted

\* connection c has just had a publish fail: the frame is recorded without
\* an entry id
PublishFailed(c) ==
    /\ Len(sent'[c]) = Len(sent[c]) + 1
    /\ Last(sent'[c]).id = 0

\* C7: when the append fails during the gateway's publish, nothing is raised
\* in the relay loop: the loop goes on to its next step (the read of the
\* response stream), the connection stays in the registry and the store is as
\* it was.
C7_PublishFailureTolerated ==
    [][\A c \in Conns :
          PublishFailed(c) =>
              /\ conn'[c].pc = "read"
              /\ conn'[c].alive = conn[c].alive
              /\ InRegistry(c)'
              /\ active_connections' = active_connections
              /\ store' = store]_vars

C7_Witness ==
    \E c \in Conns :
        /\ sent[c] # <<>>
        /\ Last(sent[c]).id = 0
        /\ conn[c].pc = "read"
        /\ InRegistry(c)

\* C8: for a non-empty name, token issuance takes a token that is not a key
\* of the store, stores under it the session document with that name and no
\* messages, sets the key's expiry to 3600 seconds and returns the document
\* it stored.
C8_TokenIssued ==
    /\ tok.pc = "set" => ~Exists(tok.token)
    /\ (http.op = "token" /\ http.arg # "") =>
           /\ http.status = 200
           /\ http.body.name = http.arg
           /\ http.body.messages = <<>>
           /\ http.body.token \in Tokens
           /\ store[http.body.token] = JsonValue(http.body)
           /\ expiry[http.body.token] = 3600

C8_Witness ==
    /\ http.op = "token"
    /\ http.status = 200
    /\ http.body.token = "t2"
    /\ Exists("t1")

\* C9: token issuance with an empty name answers 400 with the error
\* {loc: "name", msg: "Enter a valid name"} and changes nothing in the store:
\* no document is created and no expiry is set.
C9_EmptyNameRejected ==
    [][(http.op = "none" /\ http'.op = "token" /\ http'.arg = "") =>
           /\ http'.status = 400
           /\ http'.detail = <<"name", "Enter a valid name">>
           /\ tok.pc = "idle"
           /\ store' = store
           /\ expiry' = expiry]_vars

C9_Witness ==
    /\ http.op = "token"
    /\ http.arg = ""
    /\ http.status = 400
    /\ Exists("t1")

\* C10: a history read answers 400 "Session expired or does not exist" for a
\* token that is not the token of an existing session, and the stored
\* session document for the token of an existing session.
C10_HistoryRead ==
    http.op = "chat_history" =>
        IF SessionExists(http.arg)
        THEN http.status = 200 /\ http.body = JsonGet(http.arg)
        ELSE /\ http.status = 400
             /\ http.detail = <<"Session expired or does not exist">>

\* C11: a session created and then read back has the token and the name it
\* was created with; after k messages are appended to an existing session its
\* message list is the previous list followed by those k messages in order,
\* and that is what a read returns.
C11_RoundTrip ==
    /\ (http.op = "token" /\ http.status = 200) =>
           /\ chat_history_response(http.body.token).status = 200
           /\ chat_history_response(http.body.token).body.token = http.body.token
           /\ chat_history_response(http.body.token).body.name = http.arg
    /\ got.op = "add" =>
           /\ JsonGet(got.token).messages = got.stored \o got.messages
           /\ Len(JsonGet(got.token).messages) =
                  Len(got.stored) + Len(got.messages)
           /\ get_chat_history(got.token, MaxStored + 1).messages =
                  got.stored \o got.messages
           /\ (http.op = "chat_history" /\ http.arg = got.token) =>
                  /\ http.status = 200
                  /\ http.body = [token |-> got.token, name |-> "Alice",
                                  messages |-> got.stored \o got.messages]

C11_Witness ==
    /\ got.op = "add"
    /\ Len(got.stored) = 2
    /\ Len(got.messages) = 2
    /\ got.stored # got.messages
    /\ http.op = "chat_history"
    /\ http.arg = got.token

\* C12: for a stored list of n messages and a limit > 0, the bounded read
\* returns the whole list when limit >= n and exactly the last `limit`
\* messages in their order when limit < n.
C12_BoundedRead ==
    (got.op = "get" /\ got.limit > 0) =>
        LET n == Len(got.stored)
            result == got.data.messages
        IN  /\ got.data.token = got.token
            /\ IF got.limit >= n
               THEN result = got.stored
               ELSE /\ Len(result) = got.limit
                    /\ \A i \in 1..got.limit :
                           result[i] = got.stored[n - got.limit + i]

C12_Witness ==
    /\ got.op = "get"
    /\ got.limit = 2
    /\ Len(got.stored) = 4
    /\ Len(got.data.messages) = 2
    /\ got.stored[1] # got.stored[3]

\* C13 as stated: the bounded read with limit 0 returns the entire list, and
\* with a negative limit only the trailing |limit| messages.
C13_TrailingOnNegativeLimit ==
    (got.op = "get" /\ got.limit <= 0) =>
        IF got.limit = 0
        THEN got.data.messages = got.stored
        ELSE got.data.messages = Trailing(got.stored, 0 - got.limit)

\* C13 as amended: the bounded read with limit 0 returns the entire list, and
\* with a negative limit the list without its first |limit| messages (nothing
\* when the list has no more than |limit| messages).
C13_DropsLeadingOnNegativeLimit ==
    (got.op = "get" /\ got.limit <= 0) =>
        LET n == Len(got.stored)
            drop == 0 - got.limit
            result == got.data.messages
        IN  IF drop >= n
            THEN result = <<>>
            ELSE /\ Len(result) = n - drop
                 /\ \A i \in 1..(n - drop) : result[i] = got.stored[drop + i]

C13_Witness ==
    /\ got.op = "get"
    /\ got.limit = -1
    /\ Len(got.stored) = 4
    /\ Len(got.data.messages) = 3

\* C14: when the worker handles a request entry whose session is absent or
\* expired, processing returns without raising and goes on to the delete: no
\* language-model call is made, no response entry is published, no expiry is
\* set and nothing is appended to any history.
C14_SilentDrop ==
    [][(w.pc = "history" /\ w'.pc # "history" /\ ~SessionExists(w.token)) =>
           /\ w'.pc = "delete"
           /\ w'.error = ""
           /\ UNCHANGED <<store, expiry, nextId, gptCalls, replies, appends>>]_vars

\* the token carried by the request entry with this id: the token of the
\* connection that published it
RequestTokens(id) ==
    {conn[d].token : d \in {e \in Conns :
        \E j \in DOMAIN sent[e] : sent[e][j].id = id}}

\* C15: a reply the worker produced for a request carrying token T is
\* delivered only to connections that authenticated with T.
C15_SessionScoped ==
    \A c \in Conns : \A k \in DOMAIN delivered[c] :
        RequestTokens(delivered[c][k].req) = {conn[c].token}

C15_Witness ==
    /\ conn["c1"].token = "t1"
    /\ conn["c2"].token = "t2"
    /\ delivered["c1"] # <<>>
    /\ delivered["c2"] # <<>>

\* C16: whenever the client of a registered connection has disconnected, its
\* relay task eventually observes it, removes the connection from the
\* registry and exits, also when the task is waiting in the read of the
\* response stream at that moment.
C16_DisconnectObserved ==
    \A c \in Conns :
        (InRegistry(c) /\ ~conn[c].alive)
            ~> (conn[c].pc = "closed" /\ ~InRegistry(c))

\* user, assistant, user, assistant, ...
Alternates(messages) ==
    /\ Len(messages) % 2 = 0
    /\ \A i \in DOMAIN messages :
           messages[i].source = IF i % 2 = 1 THEN "user" ELSE "assistant"

\* C17: the message list of every stored session has even length and
\* alternates user, assistant, ... starting with a user message.
C17_Alternation ==
    \A key \in Keys : SessionExists(key) => Alternates(JsonGet(key).messages)

C17_Witness ==
    /\ SessionExists("t1")
    /\ Len(JsonGet("t1").messages) = 4
    /\ \E id \in Ids : appends[id] = 2

\* C18: the expiry of a session key is set once, at creation: no later step
\* (history read, bounded read, WebSocket authentication, history append,
\* reply publication) changes it; it only runs down as time passes, until the
\* session is gone.
C18_ExpiryFixedAtCreation ==
    [][\A token \in Tokens :
          (SessionExists(token) /\ expiry[token] # NoTTL) =>
              \/ /\ SessionExists(token)'
                 /\ expiry'[token] \in {expiry[token], Elapse(expiry[token])}
                 /\ expiry'[token] > 0
              \/ /\ ~SessionExists(token)'
                 /\ Elapse(expiry[token]) <= 0]_vars

C18_Witness ==
    /\ SessionExists("t1")
    /\ expiry["t1"] = Elapse(3600)
    /\ Len(JsonGet("t1").messages) = 2
    /\ http.op = "chat_history"
    /\ http.status = 200

\* the relay task of d waits in the read of its response stream
Blocked(d) ==
    /\ conn[d].pc = "read"
    /\ ~XReadReady(response_channel(conn[d].token))

\* C19: while relay tasks are blocked waiting for replies, every other
\* accepted connection can still receive a frame and publish its request
\* entry, and token issuance and history reads can still be made and can
\* complete.
C19_NoCrossConnectionEffect ==
    (\E d \in Conns : Blocked(d)) =>
        /\ \A c \in Conns :
            /\ (Quiet /\ conn[c].pc = "receive" /\ conn[c].alive
                      /\ frames < MaxFrames) => ENABLED websocket_receive(c)
            /\ (Quiet /\ conn[c].pc = "publish") =>
                   ENABLED websocket_publish(c, TRUE)
        /\ Quiet => \A token \in known : ENABLED chat_history(token)
        /\ (Quiet /\ uuid4 # {}) =>
               ENABLED (\E token \in Tokens :
                            token_generator_start("Alice", token))
        /\ tok.pc = "set" => ENABLED token_generator_set(TRUE)
        /\ tok.pc = "expire" => ENABLED token_generator_expire(TRUE)
        /\ http.op # "none" => ENABLED http_return

C19_Witness ==
    /\ Blocked("c1")
    /\ conn["c2"].pc = "publish"
    /\ conn["c1"].token # conn["c2"].token
    /\ tok.pc = "idle"

\* request entry id is in message_channel, appended after the entry at
\* which the worker raised an error
AppendedAfterError(id) ==
    /\ w.error \in {"history", "query", "append", "delete"}
    /\ w.id < id
    /\ \E i \in DOMAIN RequestEntries : RequestEntries[i].id = id

\* the worker has read request entry id and handled it
Handled(id) == gptCalls[id] # <<>> \/ <<message_channel, id>> \in deleted

\* C20: an entry whose processing raised an error does not wedge the worker
\* loop: every request entry appended to message_channel after it is still
\* eventually read and handled.
C20_NotWedged ==
    \A id \in Ids : AppendedAfterError(id) ~> Handled(id)

\* the steps of the worker on request entry id, told by their effects
ReplyObtained(id) == Len(gptCalls'[id]) = Len(gptCalls[id]) + 1
ReplyPublished(id) == replies'[id] = replies[id] + 1
ExpirySet(id) == w.id = id /\ w.pc = "expire" /\ w'.pc # "expire"
HistoryAppended(id) == appends'[id] = appends[id] + 1
RequestDeleted(id) ==
    /\ <<message_channel, id>> \in deleted'
    /\ <<message_channel, id>> \notin deleted

\* C21: in an exchange in which every operation succeeds the worker's steps
\* occur in this order: the reply is obtained, it is published as a `message`
\* entry on the response stream of the token, the expiry of that stream is
\* set to 3600 seconds, [user message, assistant message] is appended to the
\* session history, the request entry is deleted; no step comes before an
\* earlier one.
C21_StepOrder ==
    [][\A id \in Ids :
          LET token == w.token
              channel == response_channel(w.token)
          IN  /\ ReplyObtained(id) =>
                     /\ w.id = id
                     /\ replies[id] = 0 /\ appends[id] = 0
                     /\ <<message_channel, id>> \notin deleted
              /\ ReplyPublished(id) =>
                     /\ w.id = id
                     /\ Len(gptCalls[id]) = 1
                     /\ Last(store'[channel].entries) =
                            [id |-> XAddId, k |-> "message",
                             v |-> Last(gptCalls[id]), req |-> id]
                     /\ Len(store'[channel].entries) =
                            Len(store[channel].entries) + 1
                     /\ appends[id] = 0
                     /\ <<message_channel, id>> \notin deleted
              /\ ExpirySet(id) =>
                     /\ replies[id] = 1
                     /\ expiry'[channel] = 3600
                     /\ appends[id] = 0
                     /\ <<message_channel, id>> \notin deleted
              /\ HistoryAppended(id) =>
                     /\ w.id = id
                     /\ replies[id] = 1
                     /\ expiry[channel] = 3600
                     /\ JsonGet(token)'.messages = JsonGet(token).messages \o
                            <<Message(w.text, "user"),
                              Message(Last(gptCalls[id]), "assistant")>>
                     /\ <<message_channel, id>> \notin deleted
              /\ RequestDeleted(id) =>
                     /\ w.id = id
                     /\ \/ gptCalls[id] = <<>> /\ replies[id] = 0
                                              /\ appends[id] = 0
                        \/ Len(gptCalls[id]) = 1 /\ replies[id] = 1
                                                 /\ appends[id] = 1]_vars

C21_Witness ==
    /\ \E id \in Ids :
           /\ <<message_channel, id>> \in deleted
           /\ replies[id] = 1
           /\ appends[id] = 1
    /\ w.pc = "read"
    /\ expiry[response_channel("t1")] = 3600

HistoryReadFails ==
    /\ w.pc = "history"
    /\ w'.pc # "history"
    /\ faults' = faults + 1 \/ JsonGetRaises(w.token)

\* the step is a language-model call that fails
QueryFails ==
    /\ w.pc = "query"
    /\ Len(gptCalls'[w.id]) = Len(gptCalls[w.id]) + 1
    /\ Last(gptCalls'[w.id]) = ProviderError

\* C23: when the session-store read or the language-model call fails while
\* the worker handles a request, the failure leaves the processing of that
\* message, and the processing has no effect: no response entry is published,
\* no expiry is set and nothing is appended to the session history, then or
\* before the worker is started again.
C23_FailureHasNoEffect ==
    [][/\ (HistoryReadFails \/ QueryFails) =>
              /\ w'.pc = "cleanup"
              /\ w'.error \in {"history", "query"}
              /\ replies[w.id] = replies'[w.id]
              /\ appends[w.id] = appends'[w.id]
              /\ UNCHANGED <<store, expiry, nextId, deleted>>
       /\ (w.pc \in {"cleanup", "stopped"} /\ w'.pc \in {"cleanup", "stopped"}) =>
              /\ UNCHANGED <<replies, appends>>
              /\ \A token \in ClientTokens :
                     /\ Len(store'[response_channel(token)].entries) <=
                            Len(store[response_channel(token)].entries)
                     /\ expiry'[response_channel(token)] =
                            expiry[response_channel(token)]
                     /\ JsonGet(token)'.messages = JsonGet(token).messages]_vars

C23_Witness ==
    /\ w.pc = "stopped"
    /\ w.error = "query"
    /\ gptCalls[w.id] = <<ProviderError>>
    /\ replies[w.id] = 0
    /\ appends[w.id] = 0
    /\ ~XReadReady(response_channel(w.token))

\* C24: on every exit path of the worker loop (interrupt, failure of the
\* stream read, failure raised while processing or deleting an entry) the
\* worker attempts to close the store connection exactly once before it
\* terminates, and a failure of that close is caught: the worker terminates
\* all the same.
C24_ClosedOnceOnExit ==
    /\ w.pc = "stopped" =>
           /\ w.closes = 1
           /\ w.error \in {"interrupt", "read", "history", "query", "append",
                           "delete"}
    /\ w.pc = "cleanup" => w.closes = 0
    /\ (w.pc = "cleanup" /\ Quiet) =>
           ENABLED worker_cleanup(TRUE) /\ ENABLED worker_cleanup(FALSE)
    /\ w.pc \notin {"stopped", "cleanup"} =>
           /\ w.closes = 0
           /\ w.error = ""
    /\ w.close_error => w.pc = "stopped"

C24_Witness ==
    /\ w.pc = "stopped"
    /\ w.error = "interrupt"
    /\ w.close_error
    /\ w.closes = 1

\* the steps of the relay loop of connection c
FrameReceived(c) == conn[c].pc = "receive" /\ conn'[c].pc = "publish"
FramePublished(c) == conn[c].pc = "publish" /\ conn'[c].pc # "publish"

\* C25: for every text frame received on an accepted connection the gateway
\* makes one publish to message_channel, of one entry whose single field has
\* the connection's token as key and the frame text as value (no entry when
\* the append fails), before it reads the response stream of the token; the
\* next frame is received only after that read has returned and its entry
\* was delivered.
C25_PublishThenRead ==
    [][/\ \A c \in Conns :
            /\ FrameReceived(c) =>
                   /\ conn[c].token \in Guessable
                   /\ InRegistry(c)
                   /\ Len(delivered[c]) = Len(sent[c])
                   /\ UNCHANGED <<store, sent>>
            /\ FramePublished(c) =>
                   /\ conn'[c].pc = "read"
                   /\ sent'[c] = Append(sent[c], Last(sent'[c]))
                   /\ Last(sent'[c]).text = conn[c].data
                   /\ IF Last(sent'[c]).id = 0
                      THEN store' = store
                      ELSE /\ Last(sent'[c]).id = XAddId
                           /\ store' = [store EXCEPT ![message_channel] =
                                  StreamValue(RequestEntries \o
                                      <<[id |-> XAddId, k |-> conn[c].token,
                                         v |-> conn[c].data, req |-> 0]>>)]
            /\ (conn[c].pc = "read" /\ conn'[c].pc # "read") =>
                   Len(sent[c]) = Len(delivered[c]) + 1
       /\ Len(RequestEntries') > Len(RequestEntries) =>
              \E c \in Conns : FramePublished(c)]_vars

C25_Witness ==
    /\ Len(sent["c1"]) = 2
    /\ sent["c1"][1].id # 0
    /\ sent["c1"][2].id # 0
    /\ Len(delivered["c1"]) = 1
    /\ conn["c1"].pc = "read"
    /\ Last(RequestEntries) = [id |-> sent["c1"][2].id, k |-> conn["c1"].token,
                               v |-> sent["c1"][2].text, req |-> 0]

\* the ids of the entries of a stream
EntryIds(name) == {store[name].entries[i].id : i \in DOMAIN store[name].entries}

\* the relay loop of c has sent entry e to its client
SentToClient(c, e) ==
    /\ delivered[c] # <<>>
    /\ Last(delivered[c]) = [text |-> e.v, req |-> e.req, id |-> e.id]

\* C26: in the relay loop every response entry the read returned is sent to
\* the client and then deleted from the response stream: an entry is never
\* deleted before it was sent, and when an iteration completes normally none
\* of the entries it delivered remains in the response stream.
C26_SentThenDeleted ==
    [][/\ \A c \in Conns :
            /\ (conn[c].pc = "read" /\ conn'[c].pc = "send") =>
                   /\ conn'[c].response # <<>>
                   /\ UNCHANGED <<store, deleted, delivered>>
            /\ (conn[c].pc = "send" /\ conn'[c].pc = "delete") =>
                   /\ delivered'[c] =
                          Append(delivered[c],
                                 [text |-> Head(conn[c].response).v,
                                  req |-> Head(conn[c].response).req,
                                  id |-> Head(conn[c].response).id])
                   /\ UNCHANGED <<store, deleted>>
            /\ (conn[c].pc = "delete" /\ conn'[c].pc = "receive") =>
                   /\ SentToClient(c, Head(conn[c].response))
                   /\ Tail(conn[c].response) = <<>>
                   /\ Head(conn[c].response).id \notin
                          EntryIds(response_channel(conn[c].token))'
       /\ \A token \in ClientTokens :
            Len(store'[response_channel(token)].entries) <
                Len(store[response_channel(token)].entries) =>
                \E c \in Conns :
                    /\ conn[c].pc = "delete"
                    /\ conn[c].token = token
                    /\ SentToClient(c, Head(conn[c].response))
                    /\ store'[response_channel(token)].entries =
                           XDelEntries(store[response_channel(token)].entries,
                                       Head(conn[c].response).id)]_vars

C26_Witness ==
    /\ conn["c1"].pc = "receive"
    /\ Len(delivered["c1"]) = 1
    /\ \E id \in Ids : <<response_channel(conn["c1"].token), id>> \in deleted
    /\ store[response_channel(conn["c1"].token)].type = "stream"
    /\ store[response_channel(conn["c1"].token)].entries = <<>>

\* the ids of the request entries published so far
PublishedIds ==
    UNION {{sent[c][k].id : k \in DOMAIN sent[c]} : c \in Conns} \ {0}

\* the request entries the worker has started on and not yet deleted
InHand ==
    {id \in Ids : gptCalls[id] # <<>> /\ <<message_channel, id>> \notin deleted}

\* C27: the worker is strictly sequential: at most one request is with the
\* language model at any time, and the worker reads the next request entry
\* only once the entry it read before has been handled and deleted.
C27_Sequential ==
    [][/\ Cardinality(InHand') <= 1
       /\ InHand' \subseteq {w'.id}
       /\ \A id \in Ids : Len(gptCalls'[id]) > Len(gptCalls[id]) =>
              w.id = id /\ w.pc = "query" /\ w'.pc # "query"
       /\ (w.pc = "read" /\ w'.pc = "history") =>
              /\ InHand = {}
              /\ gptCalls[w'.id] = <<>>
              /\ \A id \in PublishedIds :
                     id < w'.id => <<message_channel, id>> \in deleted]_vars

C27_Witness ==
    /\ w.pc = "query"
    /\ w.id = RequestEntries[1].id
    /\ \E id \in Ids :
           /\ id < w.id
           /\ gptCalls[id] # <<>>
           /\ <<message_channel, id>> \in deleted

\* the worker has taken up request entry id
TakenUp(id) ==
    \/ w.id = id
    \/ gptCalls[id] # <<>>
    \/ <<message_channel, id>> \in deleted

\* C28: the worker handles request entries in the order they were appended
\* to message_channel: of two entries, with the same token or not, the one
\* appended first is handled, its reply published and the entry deleted,
\* before the worker takes up the other.
C28_InAppendOrder ==
    \A i \in PublishedIds : \A j \in PublishedIds :
        (i < j /\ TakenUp(j)) =>
            /\ Len(gptCalls[i]) = 1
            /\ replies[i] = 1
            /\ appends[i] = 1
            /\ <<message_channel, i>> \in deleted

C28_Witness ==
    /\ conn["c1"].token = conn["c2"].token
    /\ sent["c1"] # <<>>
    /\ sent["c2"] # <<>>
    /\ sent["c2"][1].id < sent["c1"][1].id
    /\ replies[sent["c2"][1].id] = 1
    /\ replies[sent["c1"][1].id] = 1

\* C29: the replies delivered to a client over one connection are delivered
\* in the order the worker published them on the response stream of the
\* token: a reply published later is never delivered before one published
\* earlier.
C29_DeliveredInPublishedOrder ==
    \A c \in Conns : \A k \in DOMAIN delivered[c] : \A l \in DOMAIN delivered[c] :
        k < l => delivered[c][k].id < delivered[c][l].id

C29_Witness ==
    /\ Len(delivered["c1"]) = 2
    /\ delivered["c1"][1].req = delivered["c1"][2].req
    /\ delivered["c1"][2].id < sent["c1"][2].id

\* the worker has finished the exchange of request entry id: the reply was
\* published and the entry deleted
ExchangeFinished(id) ==
    /\ replies[id] >= 1
    /\ <<message_channel, id>> \in deleted

\* C30: orphaned response streams are reclaimed: once the worker has
\* finished an exchange, the response stream it published the reply to
\* carries an expiry of at most 3600 seconds for as long as it exists (the
\* moment between a later publish and its expire apart), so that it ceases
\* to exist when nobody reads it and no further reply arrives.
C30_ResponseStreamExpires ==
    \A id \in Ids : \A token \in RequestTokens(id) :
        (/\ ExchangeFinished(id)
         /\ Exists(response_channel(token))
         /\ ~(w.pc = "expire" /\ w.token = token)) =>
            /\ expiry[response_channel(token)] > 0
            /\ expiry[response_channel(token)] <= 3600

\* the relay loop of c deletes an entry that is no longer in the stream
DeletesAbsent(c) ==
    /\ conn[c].pc = "delete"
    /\ conn'[c].pc \notin {"delete", "failed"}
    /\ Head(conn[c].response).id \notin EntryIds(response_channel(conn[c].token))

\* C31: deleting an entry id that is not in the stream (never published, or
\* already deleted) does not raise and leaves the stream unchanged, so a
\* delete followed by a delete of the same id yields the same stream as a
\* single delete.
C31_DeleteIdempotent ==
    [][/\ \A d \in deleted \cup {<<message_channel, nextId>>}
                          \cup {<<message_channel, id>> : id \in EntryIds(message_channel)} :
            LET name == d[1]
                id   == d[2]
                once == XDel(name, id)
            IN  /\ XDelEntries(once[name].entries, id) = once[name].entries
                /\ id \notin EntryIds(name) => once = store
       /\ \A c \in Conns :
            DeletesAbsent(c) =>
                /\ conn'[c].pc = "receive"
                /\ store' = store]_vars

C31_Witness ==
    /\ conn["c1"].pc = "receive"
    /\ conn["c2"].pc = "receive"
    /\ delivered["c1"] # <<>>
    /\ delivered["c2"] # <<>>
    /\ Last(delivered["c1"]).id = Last(delivered["c2"]).id
    /\ XReadReady(response_channel(conn["c1"].token))

\* the streams of the program: the request stream and the response streams
StreamNames == {message_channel} \cup {response_channel(t) : t \in known}

\* r holds the oldest entries of the stream, up to count, in append order
OldestOf(name, count, r) ==
    /\ Len(r) = Min(count, Len(store[name].entries))
    /\ \A i \in DOMAIN r : r[i] = store[name].entries[i]
    /\ \A i, j \in DOMAIN r : i < j => r[i].id < r[j].id
    /\ \A i \in DOMAIN r : \A j \in DOMAIN store[name].entries :
            j > Len(r) => r[i].id < store[name].entries[j].id

\* C32: a stream read starts at 0-0 and removes nothing: it returns the oldest
\* entries, up to count, in append order; the read leaves the stream as it
\* was, and as long as nothing is deleted a later read returns the same
\* entries again.
C32_ReadFromStart ==
    [][/\ \A name \in StreamNames : \A count \in {1, MaxFrames} :
            XReadReady(name) =>
                /\ OldestOf(name, count, XRead(name, count))
                /\ (store'[name] # store[name]
                    /\ store'[name].type = "stream"
                    /\ \A i \in DOMAIN store[name].entries :
                          \E j \in DOMAIN store'[name].entries :
                              store'[name].entries[j].id = store[name].entries[i].id)
                   => Prefix(Prefix(store'[name].entries, count),
                             Len(XRead(name, count))) = XRead(name, count)
       /\ \A c \in Conns :
            (conn[c].pc = "read" /\ conn'[c].pc = "send") =>
                /\ store' = store
                /\ conn'[c].response
                     = Prefix(store'[response_channel(conn[c].token)].entries, 1)
       /\ (w.pc = "read" /\ w'.pc = "history") =>
                /\ store' = store
                /\ w'.id = Head(store'[message_channel].entries).id]_vars

\* both connections have read the same entry, which is still in the stream,
\* and a younger request waits behind the oldest one
C32_Witness ==
    /\ conn["c1"].pc = "send"
    /\ conn["c2"].pc = "send"
    /\ conn["c1"].response = conn["c2"].response
    /\ Head(conn["c1"].response).id \in EntryIds(response_channel(conn["c1"].token))
    /\ Len(store[message_channel].entries) > 1

\* C33: connect accepts the handshake and then adds the connection to the
\* live set; disconnect of a registered connection removes exactly that
\* connection and leaves the others registered; sending to one connection
\* sends one frame, on that connection only.
C33_RegistryOperations ==
    [][\A c \in Conns :
        /\ (conn[c].pc = "authenticated" /\ conn'[c].pc = "receive") =>
              /\ conn'[c].alive
              /\ active_connections' = Append(active_connections, c)
        /\ (InRegistry(c) /\ ~InRegistry(c)') =>
              /\ Len(active_connections') = Len(active_connections) - 1
              /\ \A d \in Conns \ {c} :
                    InRegistry(d) =>
                        \E i \in DOMAIN active_connections' :
                            active_connections'[i] = d
        /\ delivered'[c] # delivered[c] =>
              /\ Len(delivered'[c]) = Len(delivered[c]) + 1
              /\ Prefix(delivered'[c], Len(delivered[c])) = delivered[c]
              /\ \A d \in Conns \ {c} : delivered'[d] = delivered[d]]_vars

\* c1 registered first and has been removed, c2 is still registered and has
\* been sent a frame
C33_Witness ==
    /\ conn["c1"].pc = "closed"
    /\ ~InRegistry("c1")
    /\ InRegistry("c2")
    /\ delivered["c1"] # <<>>
    /\ delivered["c2"] # <<>>
    /\ Last(delivered["c1"]).id < Last(delivered["c2"]).id

\* C34: the worker appends an exchange to the history only if the reply was
\* appended to the response stream of the token: every exchange appended for
\* a request corresponds to a response entry published for that request.
C34_AppendedOnlyIfPublished ==
    \A id \in Ids : appends[id] <= replies[id]

\* the relay loop of c has taken a frame of its connected client
FrameTaken(c) ==
    /\ conn[c].pc = "publish"
    /\ conn[c].alive
    /\ SessionExists(conn[c].token)

\* the relay loop of c has just sent a reply frame to its client
ReplySent(c) ==
    /\ conn[c].pc = "delete"
    /\ SentToClient(c, Head(conn[c].response))

\* C35: when every task that can take a step eventually takes one and no
\* operation fails, a client that sends a frame on an accepted connection
\* eventually receives a reply frame, unless it disconnects or its session
\* expires first.
C35_EventuallyReplied ==
    \A c \in Conns :
        FrameTaken(c)
            ~> \/ ReplySent(c)
               \/ ~conn[c].alive
               \/ ~SessionExists(conn[c].token)

\* c2 has been sent the reply to the last frame while c1, still connected,
\* waits for a reply
C35_Witness ==
    /\ ReplySent("c2")
    /\ conn["c2"].alive
    /\ conn["c1"].alive
    /\ conn["c1"].pc = "read"
    /\ frames = MaxFrames
    /\ ~XReadReady(message_channel)
    /\ w.pc = "read"

\* C36: each response entry is delivered to at most one client connection,
\* and at most once, also when two live connections hold the same token and
\* both read before either deletes.
C36_DeliveredAtMostOnce ==
    \A c, d \in Conns :
        \A i \in DOMAIN delivered[c] : \A j \in DOMAIN delivered[d] :
            delivered[c][i].id = delivered[d][j].id => (c = d /\ i = j)

\* the request entries connection c published that are still in
\* message_channel, the one the worker has in hand included
Outstanding(c) ==
    {id \in EntryIds(message_channel) :
        \E k \in DOMAIN sent[c] : sent[c][k].id = id}

\* C37 as stated: each relay task has at most one request outstanding:
\* message_channel, the worker's in-flight entry included, holds at most one
\* request entry published by any single connection.
C37_OneOutstanding ==
    \A c \in Conns : Cardinality(Outstanding(c)) <= 1

\* C37: each relay task publishes its next request only after it has sent a
\* reply frame for the request it published before: the requests a connection
\* has published exceed the reply frames sent on it by at most one.
C37_OnePublishPerReply ==
    \A c \in Conns :
        /\ Len(sent[c]) <= Len(delivered[c]) + 1
        /\ conn[c].pc \in {"receive", "publish"} => Len(sent[c]) = Len(delivered[c])

\* c1 has published its second request while its first one, already replied
\* to, is still in message_channel
C37_Witness ==
    /\ Len(sent["c1"]) = 2
    /\ Len(delivered["c1"]) = 1
    /\ Cardinality(Outstanding("c1")) = 2

\* the relay task of c has ended
TaskEnded(c) == conn[c].pc \in {"closed", "failed"}

\* C38: every connection in the registry has a running relay task: once a
\* relay task has ended, by a client disconnect or by an error raised by the
\* response read, the send or the delete, its connection is no longer in the
\* registry.
C38_RegisteredHasTask ==
    \A c \in Conns : TaskEnded(c) => ~InRegistry(c)

\* C39: in every reachable state, the intermediate states of token issuance
\* and the states after a store operation failed partway included, every
\* session document in the store has an expiry set.
C39_SessionsHaveExpiry ==
    \A key \in Keys : SessionExists(key) => expiry[key] # NoTTL

\* C40: a request entry whose session is absent or expired is deleted from
\* message_channel after the silent drop: the worker leaves the handling of
\* such an entry only with the entry deleted and back at the read of the next
\* one, so the entry is not read again and does not hold up later entries.
C40_DroppedEntryDeleted ==
    [][(/\ w.pc \in {"history", "delete"}
        /\ ~SessionExists(w.token)
        /\ w'.pc \notin {"history", "delete"})
          => /\ w'.pc = "read"
             /\ w.id \notin {store'[message_channel].entries[i].id :
                               i \in DOMAIN store'[message_channel].entries}]_vars

====
